---- MODULE Spec2Model ----
(***************************************************************************)
(* Sensor registry, debounce and scan scheduler of CommandStation-EX       *)
(* (class Sensor, src/DCCTimerGiga.cpp lines 288-517).                      *)
(*                                                                         *)
(* The sensors live in heap cells linked through nextSensor; the static    *)
(* pointers firstSensor, readingSensor, firstPollSensor and lastSensor     *)
(* hold cell addresses (NULL = 0).  Every operation of the class runs to   *)
(* completion in the cooperative main loop and is one action here.         *)
(***************************************************************************)
EXTENDS Integers, Sequences, FiniteSets, TLC

\* ------------------------------------------------------------- bounds
\* micros() counts modulo MicrosModulus (unsigned long, scaled down).
MicrosModulus == 4
\* Largest advance of the microsecond clock between two operations.
MaxStep == 2
\* Length of the longest list the quantum of checkAll is checked on.
BigListLen == 18

\* ---------------------------------------------------- program constants
\* Sensors.h: minimum time between the starts of two read cycles (scaled).
cycleInterval == 2
\* Sensors.h: value latchDelay is reset to (the debounce threshold).
minReadCount == 3
\* IODevice.h: largest valid VPIN, and the "no pin" value.
VPIN_MAX == 32767
VPIN_NONE == 65535
\* Sensors handled per entry of checkAll.
Quantum == 16

NULL == 0
\* Heap cells that can hold a Sensor object.
Addrs == {1, 2, 3}

\* Inputs of the commands.
SensorIds == {1, 2}
\* A pin read by polling, a pin whose driver notifies changes, no pin, and
\* a pin number above VPIN_MAX.
PinPoll == 30
PinNotify == 164
PinBad == 40000
NotifyPins == {PinNotify}
\* <<pin, pullUp>> arguments of create: for the first sensor id and for the
\* second.
PollConfigs == {<<PinPoll, 1>>, <<VPIN_NONE, 0>>, <<PinBad, 1>>}
NotifyConfigs == {<<PinNotify, 0>>, <<VPIN_NONE, 1>>}
\* The arguments used where the EEPROM is modelled.
StoreConfigs == {<<PinPoll, 0>>, <<PinPoll, 1>>, <<VPIN_NONE, 0>>}

VARIABLES
  heap,              \* allocated Sensor objects: address -> fields
  firstSensor,       \* head of the list
  readingSensor,     \* scan cursor (NULL = not scanning)
  lastReadCycle,     \* micros() at the start of the last read cycle
  firstPollSensor,   \* USE_NOTIFY statics
  lastSensor,
  inputChangeCallbackRegistered,
  micros,            \* the hardware microsecond counter
  eeprom,            \* EEStore: nSensors header and the sensor records
  out,               \* what the last operation returned and called
  hist,              \* history of the scans and of the broadcasts
  frame              \* checkAll's position and locals while it runs

vars == <<heap, firstSensor, readingSensor, lastReadCycle, firstPollSensor,
          lastSensor, inputChangeCallbackRegistered, micros, eeprom, out,
          hist, frame>>

\* The registry part of the state, as the value the operations transform.
Registry == [heap |-> heap, firstSensor |-> firstSensor,
             readingSensor |-> readingSensor,
             firstPollSensor |-> firstPollSensor, lastSensor |-> lastSensor]

\* Static initialisers of the class.
EmptyRegistry == [heap |-> << >>, firstSensor |-> NULL, readingSensor |-> NULL,
                  firstPollSensor |-> NULL, lastSensor |-> NULL]

\* Log of the last operation: op its name, args its arguments, ret what it
\* returned, scanned the sensors checkAll applied the debounce step to,
\* reported its broadcastSensor calls, configured the configureInput calls,
\* freed the sensor it freed and cursor the value readingSensor had when
\* it did.  phase and snapshot follow a store - reset - load sequence:
\* snapshot is the set of sensor data at the store.
\* settled is the set of sensors whose countdown, under way, checkAll
\* reset because it saw the input back at the level of active.
NoOut == [op |-> "none", args |-> <<>>, ret |-> 0, scanned |-> <<>>,
          reported |-> <<>>, configured |-> <<>>, freed |-> NULL,
          cursor |-> NULL, phase |-> "idle", snapshot |-> {},
          settled |-> {}]

\* History: cycle is the sequence of sensors the debounce step was
\* applied to since the current read cycle started; said[a] is the value
\* of the last broadcastSensor call made for sensor a (a is not in its
\* domain while none was made); elapsed is the time gone by since the last
\* read cycle started (since the start of the program before the first
\* one), MicrosModulus standing for that much or more.
NoHist == [cycle |-> <<>>, said |-> <<>>, elapsed |-> 0]

\* checkAll is not running.
NoFrame == [pc |-> "idle"]

\* ------------------------------------------------------------ the list
\* Addresses reached from p through nextSensor, in order.
RECURSIVE ListFrom(_, _)
ListFrom(h, p) ==
  IF p = NULL THEN <<>> ELSE <<p>> \o ListFrom(h, h[p].nextSensor)

SensorList(reg) == ListFrom(reg.heap, reg.firstSensor)

SeqToSet(s) == {s[i] : i \in 1..Len(s)}

\* struct SensorData of sensor d
Data(d) == [snum |-> d.snum, pin |-> d.pin, pullUp |-> d.pullUp]

\* unsigned subtraction thisTime - lastReadCycle
USub(a, b) == (a - b + MicrosModulus) % MicrosModulus

\* IODevice::hasCallback(pin)
hasCallback(pin) == pin \in NotifyPins

\* ------------------------------------------------------ Sensor::remove
\* Position in the list of the first sensor with id n (0 = none).
FindPos(h, lst, n) ==
  LET hits == {i \in 1..Len(lst) : h[lst[i]].snum = n}
  IN  IF hits = {} THEN 0 ELSE CHOOSE i \in hits : \A j \in hits : i <= j

\* The search, the unlinking from the list and the free of remove(n);
\* tt is the sensor found (NULL = none).
UnlinkAndFree(reg, n) ==
  LET lst == SensorList(reg)
      k   == FindPos(reg.heap, lst, n)
  IN  IF k = 0 THEN [reg |-> reg, tt |-> NULL, nx |-> NULL]
      ELSE
        LET tt  == lst[k]
            pp  == IF k = 1 THEN NULL ELSE lst[k - 1]
            nx  == reg.heap[tt].nextSensor
            h1  == IF tt = reg.firstSensor THEN reg.heap
                   ELSE [reg.heap EXCEPT ![pp].nextSensor = nx]
        IN  [reg |-> [heap |-> [a \in (DOMAIN h1) \ {tt} |-> h1[a]],
                      firstSensor |-> IF tt = reg.firstSensor THEN nx
                                      ELSE reg.firstSensor,
                      readingSensor |-> reg.readingSensor,
                      firstPollSensor |-> IF tt = reg.firstPollSensor THEN nx
                                          ELSE reg.firstPollSensor,
                      lastSensor |-> IF tt = reg.lastSensor THEN pp
                                     ELSE reg.lastSensor],
             tt |-> tt, nx |-> nx]

RemoveNoCursorRepair(reg, n) ==
  LET u == UnlinkAndFree(reg, n)
  IN  [reg |-> u.reg, ret |-> IF u.tt = NULL THEN 0 ELSE 1, freed |-> u.tt]

RemoveCursorToIdle(reg, n) ==
  LET u == UnlinkAndFree(reg, n)
  IN  IF u.tt = NULL THEN [reg |-> reg, ret |-> 0, freed |-> NULL]
      ELSE [reg |-> [u.reg EXCEPT
                       !.readingSensor = IF reg.readingSensor = u.tt THEN NULL
                                         ELSE reg.readingSensor],
            ret |-> 1, freed |-> u.tt]

\* remove(n): ret 1 = true.  If the sensor freed is the one to be read
\* next, the following one becomes the next to be read.
RemoveOp(reg, n) ==
  LET u == UnlinkAndFree(reg, n)
  IN  IF u.tt = NULL THEN [reg |-> reg, ret |-> 0, freed |-> NULL]
      ELSE [reg |-> [u.reg EXCEPT
                       !.readingSensor = IF reg.readingSensor = u.tt THEN u.nx
                                         ELSE reg.readingSensor],
            ret |-> 1, freed |-> u.tt]

\* ------------------------------------------------------ Sensor::create
\* Results calloc can give: NULL, or a cell that is not allocated (the
\* lowest one: the cells are interchangeable).
LowestFree(h) ==
  LET free == Addrs \ DOMAIN h
  IN  IF free = {} THEN {} ELSE {CHOOSE a \in free : \A b \in free : a <= b}

Calloc(h) == {NULL} \cup LowestFree(h)

PinAlwaysValid(pin) == TRUE

\* The pin test at the head of create.
PinValid(pin) == ~(pin > VPIN_MAX /\ pin # VPIN_NONE)

KeepExisting(reg, snum) == [reg |-> reg, ret |-> 0, freed |-> NULL]

\* remove(snum) as create calls it.
RemoveExisting(reg, snum) == RemoveOp(reg, snum)

NewSensorStartsActive(reg, snum, pin, pullUp) ==
  [snum |-> snum, pin |-> pin, pullUp |-> pullUp,
   active |-> TRUE, inputState |-> FALSE, latchDelay |-> minReadCount,
   pollingRequired |-> IF pin = VPIN_NONE THEN FALSE
                       ELSE IF hasCallback(pin) THEN FALSE ELSE TRUE,
   nextSensor |-> reg.firstSensor,
   ticks |-> 0]

\* The fields create gives the new sensor, reg being the registry after the
\* remove.
NewSensor(reg, snum, pin, pullUp) ==
  [snum |-> snum, pin |-> pin, pullUp |-> pullUp,
   active |-> FALSE, inputState |-> FALSE, latchDelay |-> minReadCount,
   pollingRequired |-> IF pin = VPIN_NONE THEN FALSE
                       ELSE IF hasCallback(pin) THEN FALSE ELSE TRUE,
   nextSensor |-> reg.firstSensor,
   ticks |-> 0]

\* create(snum, pin, pullUp) where calloc returns tt; ret is the pointer
\* returned, configured the configureInput calls made.
CreateOp(reg, snum, pin, pullUp, tt) ==
  IF ~PinValid(pin)
  THEN [reg |-> reg, ret |-> NULL, configured |-> <<>>, freed |-> NULL]
  ELSE
    LET rm == RemoveExisting(reg, snum)
        r1 == rm.reg
    IN  IF tt = NULL
        THEN [reg |-> r1, ret |-> NULL, configured |-> <<>>,
              freed |-> rm.freed]
        ELSE [reg |-> [r1 EXCEPT
                         !.heap = [a \in (DOMAIN r1.heap) \cup {tt} |->
                                     IF a = tt
                                     THEN NewSensor(r1, snum, pin, pullUp)
                                     ELSE r1.heap[a]],
                         !.firstSensor = tt],
              ret |-> tt,
              configured |-> IF pin # VPIN_NONE THEN <<<<pin, pullUp>>>>
                             ELSE <<>>,
              freed |-> rm.freed]

SetRegistry(reg) ==
  /\ heap' = reg.heap
  /\ firstSensor' = reg.firstSensor
  /\ readingSensor' = reg.readingSensor
  /\ firstPollSensor' = reg.firstPollSensor
  /\ lastSensor' = reg.lastSensor

\* <S ID PIN PULLUP> with ID from ids and <<PIN, PULLUP>> from cfgs.
CreateOf(ids, cfgs) ==
  \E snum \in ids, cfg \in cfgs :
    \E tt \in Calloc(RemoveExisting(Registry, snum).reg.heap) :
      LET r == CreateOp(Registry, snum, cfg[1], cfg[2], tt)
      IN  /\ SetRegistry(r.reg)
          /\ out' = [NoOut EXCEPT !.op = "create", !.ret = r.ret,
                                  !.args = <<snum, cfg[1], cfg[2]>>,
                                  !.configured = r.configured,
                                  !.freed = r.freed,
                                  !.cursor = IF r.freed = NULL THEN NULL
                                             ELSE readingSensor]
          /\ UNCHANGED <<hist, frame, lastReadCycle, inputChangeCallbackRegistered,
                         micros, eeprom>>

\* <S ID> with ID from ids.
RemoveOf(ids) ==
  \E n \in ids :
    LET r == RemoveOp(Registry, n)
    IN  /\ SetRegistry(r.reg)
        /\ out' = [NoOut EXCEPT !.op = "remove", !.ret = r.ret,
                                !.args = <<n>>, !.freed = r.freed,
                                !.cursor = IF r.freed = NULL THEN NULL
                                           ELSE readingSensor]
        /\ UNCHANGED <<hist, frame, lastReadCycle, inputChangeCallbackRegistered,
                       micros, eeprom>>

Create ==
  \/ CreateOf({1}, PollConfigs)
  \/ CreateOf({2}, NotifyConfigs)

Remove == RemoveOf(SensorIds)

\* ---------------------------------------------------- Sensor::checkAll
DebounceOneScanEarly(d) ==
  IF d.inputState = d.active
  THEN [d |-> [d EXCEPT !.latchDelay = minReadCount, !.ticks = 0],
        commit |-> FALSE]
  ELSE IF d.latchDelay > 1
  THEN [d |-> [d EXCEPT !.latchDelay = @ - 1,
                        !.ticks = IF @ < 0 THEN @ ELSE @ + 1],
        commit |-> FALSE]
  ELSE [d |-> [d EXCEPT !.active = d.inputState,
                        !.latchDelay = minReadCount, !.ticks = 0],
        commit |-> TRUE]

DebounceNoFloor(d) ==
  IF d.inputState = d.active
  THEN [d |-> [d EXCEPT !.latchDelay = minReadCount, !.ticks = 0],
        commit |-> FALSE]
  ELSE IF d.latchDelay >= 0
  THEN [d |-> [d EXCEPT !.latchDelay = @ - 1,
                        !.ticks = IF @ < 0 THEN @ ELSE @ + 1],
        commit |-> FALSE]
  ELSE [d |-> [d EXCEPT !.active = d.inputState,
                        !.latchDelay = minReadCount, !.ticks = 0],
        commit |-> TRUE]

DebounceKeepsCount(d) ==
  IF d.inputState = d.active
  THEN [d |-> [d EXCEPT !.ticks = 0], commit |-> FALSE]
  ELSE IF d.latchDelay > 0
  THEN [d |-> [d EXCEPT !.latchDelay = @ - 1,
                        !.ticks = IF @ < 0 THEN @ ELSE @ + 1],
        commit |-> FALSE]
  ELSE [d |-> [d EXCEPT !.active = d.inputState,
                        !.latchDelay = minReadCount, !.ticks = 0],
        commit |-> TRUE]

\* The debounce step on sensor d whose inputState is already up to date:
\* the new fields, and whether the change was validated and broadcast.
\* ticks is a history field: the number of consecutive scans that saw
\* inputState # active since latchDelay was last reset to minReadCount
\* (-1 once setState has cleared latchDelay).
DebounceStep(d) ==
  IF d.inputState = d.active
  THEN [d |-> [d EXCEPT !.latchDelay = minReadCount, !.ticks = 0],
        commit |-> FALSE]
  ELSE IF d.latchDelay > 0
  THEN [d |-> [d EXCEPT !.latchDelay = @ - 1,
                        !.ticks = IF @ < 0 THEN @ ELSE @ + 1],
        commit |-> FALSE]
  ELSE [d |-> [d EXCEPT !.active = d.inputState,
                        !.latchDelay = minReadCount, !.ticks = 0],
        commit |-> TRUE]

\* The sensors checkAll reads with IODevice::read.
IsPolled(d) == d.pollingRequired /\ d.pin # VPIN_NONE

PolledAddrs(h) == {a \in DOMAIN h : IsPolled(h[a])}

PauseOnQuantumOnly(commit, sensorCount) == sensorCount >= Quantum

PauseOneLate(commit, sensorCount) == commit \/ sensorCount > Quantum

\* pause after a pass of the loop: commit says the pass broadcast a change,
\* sensorCount is the counter after its increment.
PauseAfter(commit, sensorCount) == commit \/ sensorCount >= Quantum

ScanPassAbandons(s, rd) ==
  LET rs == s.readingSensor
      d0 == s.heap[rs]
      d1 == IF IsPolled(d0) THEN [d0 EXCEPT !.inputState = rd[rs]] ELSE d0
      db == DebounceStep(d1)
  IN  [s |-> [heap |-> [s.heap EXCEPT ![rs] = db.d],
              readingSensor |-> IF db.commit THEN NULL ELSE d0.nextSensor,
              scanned |-> Append(s.scanned, rs),
              reported |-> IF db.commit
                           THEN Append(s.reported, <<d0.snum, db.d.active>>)
                           ELSE s.reported],
       commit |-> db.commit]

\* One pass of the while loop of checkAll on the sensor under the cursor.
\* s holds heap, readingSensor and the log of this entry; rd[a] is what
\* IODevice::read returns for sensor a.
ScanPass(s, rd) ==
  LET rs == s.readingSensor
      d0 == s.heap[rs]
      d1 == IF IsPolled(d0) THEN [d0 EXCEPT !.inputState = rd[rs]] ELSE d0
      db == DebounceStep(d1)
  IN  [s |-> [heap |-> [s.heap EXCEPT ![rs] = db.d],
              readingSensor |-> d0.nextSensor,
              scanned |-> Append(s.scanned, rs),
              reported |-> IF db.commit
                           THEN Append(s.reported, <<d0.snum, db.d.active>>)
                           ELSE s.reported],
       commit |-> db.commit]

\* The while loop of checkAll: passes until the cursor is NULL or pause is
\* set (p is the value of one pass).
RECURSIVE ScanLoop(_, _, _, _)
ScanLoop(s, rd, sensorCount, pause) ==
  IF s.readingSensor = NULL \/ pause THEN s
  ELSE
    CHOOSE r \in {ScanLoop(p.s, rd, sensorCount + 1,
                           PauseAfter(p.commit, sensorCount + 1))
                    : p \in {ScanPass(s, rd)}} : TRUE

CycleDueOneEarly(thisTime, lrc) == USub(thisTime, lrc) + 1 >= cycleInterval

CycleDueNoWrap(thisTime, lrc) == thisTime - lrc >= cycleInterval

\* The test that lets a new read cycle start.
CycleDue(thisTime, lrc) == USub(thisTime, lrc) >= cycleInterval

CheckAllRestartsWhenDue(reg, lrc, thisTime, rd) ==
  IF reg.firstSensor = NULL
  THEN [heap |-> reg.heap, readingSensor |-> reg.readingSensor,
        lastReadCycle |-> lrc, scanned |-> <<>>, reported |-> <<>>]
  ELSE
    LET start == CycleDue(thisTime, lrc)
        s0 == [heap |-> reg.heap,
               readingSensor |-> IF start THEN reg.firstSensor
                                 ELSE reg.readingSensor,
               scanned |-> <<>>, reported |-> <<>>]
        s1 == ScanLoop(s0, rd, 0, FALSE)
    IN  [heap |-> s1.heap, readingSensor |-> s1.readingSensor,
         lastReadCycle |-> IF start THEN thisTime ELSE lrc,
         scanned |-> s1.scanned, reported |-> s1.reported]

\* checkAll() entered when micros() reads thisTime.
CheckAllOp(reg, lrc, thisTime, rd) ==
  IF reg.firstSensor = NULL
  THEN [heap |-> reg.heap, readingSensor |-> reg.readingSensor,
        lastReadCycle |-> lrc, scanned |-> <<>>, reported |-> <<>>]
  ELSE
    LET start == reg.readingSensor = NULL /\ CycleDue(thisTime, lrc)
        s0 == [heap |-> reg.heap,
               readingSensor |-> IF start THEN reg.firstSensor
                                 ELSE reg.readingSensor,
               scanned |-> <<>>, reported |-> <<>>]
        s1 == ScanLoop(s0, rd, 0, FALSE)
    IN  [heap |-> s1.heap, readingSensor |-> s1.readingSensor,
         lastReadCycle |-> IF start THEN thisTime ELSE lrc,
         scanned |-> s1.scanned, reported |-> s1.reported]

\* The sensors among scanned that had counted scans down in h0 and are
\* back at the full count in h1 with active as it was.
Settled(h0, h1, scanned) ==
  {a \in SeqToSet(scanned) : /\ h0[a].ticks >= 1
                             /\ h1[a].ticks = 0
                             /\ h1[a].active = h0[a].active}

CheckAll ==
  \E rd \in [PolledAddrs(heap) -> BOOLEAN] :
    LET r == CheckAllOp(Registry, lastReadCycle, micros, rd)
    IN  /\ inputChangeCallbackRegistered' = TRUE
        /\ heap' = r.heap
        /\ readingSensor' = r.readingSensor
        /\ lastReadCycle' = r.lastReadCycle
        /\ out' = [NoOut EXCEPT !.op = "checkAll", !.scanned = r.scanned,
                                !.reported = r.reported,
                                !.settled = Settled(heap, r.heap, r.scanned)]
        /\ UNCHANGED <<hist, frame, firstSensor, firstPollSensor, lastSensor, micros,
                       eeprom>>

\* ----------------------------------------- Sensor::inputChangeCallback
\* First sensor of the list on pin vpin (NULL = none).
FindPin(h, lst, vpin) ==
  LET hits == {i \in 1..Len(lst) : h[lst[i]].pin = vpin}
  IN  IF hits = {} THEN NULL
      ELSE lst[CHOOSE i \in hits : \A j \in hits : i <= j]

CallbackCommits(reg, vpin, state) ==
  LET tt == FindPin(reg.heap, SensorList(reg), vpin)
  IN  IF tt = NULL THEN reg.heap
      ELSE [reg.heap EXCEPT ![tt].inputState = (state # 0),
                            ![tt].active = (state # 0)]

InputChangeCallbackOp(reg, vpin, state) ==
  LET tt == FindPin(reg.heap, SensorList(reg), vpin)
  IN  IF tt = NULL THEN reg.heap
      ELSE [reg.heap EXCEPT ![tt].inputState = (state # 0)]

\* The HAL calls the handler once checkAll has registered it.
InputChangeCallback ==
  /\ inputChangeCallbackRegistered
  /\ \E vpin \in NotifyPins, state \in {0, 1} :
       heap' = InputChangeCallbackOp(Registry, vpin, state)
  /\ out' = NoOut
  /\ UNCHANGED <<hist, frame, firstSensor, readingSensor, lastReadCycle, firstPollSensor,
                 lastSensor, inputChangeCallbackRegistered, micros, eeprom>>

\* ------------------------------------------- Sensor::get, setState
Get(reg, n) ==
  LET lst == SensorList(reg)
      k   == FindPos(reg.heap, lst, n)
  IN  IF k = 0 THEN NULL ELSE lst[k]

SetStateKeepsDelay(d, value) ==
  [d EXCEPT !.inputState = (value # 0), !.ticks = -1]

SetStateOp(d, value) ==
  [d EXCEPT !.inputState = (value # 0), !.latchDelay = 0, !.ticks = -1]

\* Sensor::get(n)->setState(value), as the LCN link does.
SetStateOf(ids, values) ==
  \E n \in ids, value \in values :
    LET tt == Get(Registry, n)
    IN  /\ tt # NULL
        /\ heap' = [heap EXCEPT ![tt] = SetStateOp(heap[tt], value)]
        /\ out' = NoOut
        /\ UNCHANGED <<hist, frame, firstSensor, readingSensor, lastReadCycle,
                       firstPollSensor, lastSensor,
                       inputChangeCallbackRegistered, micros, eeprom>>

SetState == SetStateOf(SensorIds, {0, 1})

\* ------------------------------------------------------------ micros()
AdvanceClock ==
  /\ \E d \in 1..MaxStep : micros' = (micros + d) % MicrosModulus
  /\ out' = NoOut
  /\ UNCHANGED <<hist, frame, heap, firstSensor, readingSensor, lastReadCycle,
                 firstPollSensor, lastSensor, inputChangeCallbackRegistered,
                 eeprom>>

\* ------------------------------------------------ Sensor::store, load
StoreSkipsLast(reg, ee) ==
  LET lst == SensorList(reg)
      n   == IF Len(lst) = 0 THEN 0 ELSE Len(lst) - 1
      new == [i \in 1..n |-> Data(reg.heap[lst[i]])]
  IN  [nSensors |-> n, recs |-> new \o SubSeq(ee.recs, n + 1, Len(ee.recs))]

\* store(): the data of every sensor in list order from the start of the
\* region, and their number in the header.  Records of an earlier store
\* lying beyond the new ones stay as they are.
StoreOp(reg, ee) ==
  LET lst == SensorList(reg)
      new == [i \in 1..Len(lst) |-> Data(reg.heap[lst[i]])]
  IN  [nSensors |-> Len(lst),
       recs |-> new \o SubSeq(ee.recs, Len(lst) + 1, Len(ee.recs))]

LoadRecordsPreDecrement(ee) ==
  SubSeq(ee.recs, 1, IF ee.nSensors > 0 THEN ee.nSensors - 1 ELSE 0)

\* The records load() reads: nSensors of them, from the start.
LoadRecords(ee) == SubSeq(ee.recs, 1, ee.nSensors)

\* The outcomes of load() from record i on: one create per record, each
\* with its own result of calloc; failed counts the creates that returned
\* NULL, configured logs the configureInput calls.
RECURSIVE LoadLoop(_, _, _, _, _)
LoadLoop(reg, recs, i, failed, configured) ==
  IF i > Len(recs)
  THEN {[reg |-> reg, failed |-> failed, configured |-> configured]}
  ELSE UNION {
         LET r == CreateOp(reg, recs[i].snum, recs[i].pin, recs[i].pullUp, tt)
         IN  LoadLoop(r.reg, recs, i + 1,
                      IF r.ret = NULL THEN failed + 1 ELSE failed,
                      configured \o r.configured)
         : tt \in Calloc(RemoveExisting(reg, recs[i].snum).reg.heap) }

LoadOp(reg, ee) == LoadLoop(reg, LoadRecords(ee), 1, 0, <<>>)

\* The set of sensor data of the registry.
Triples(reg) == {Data(reg.heap[a]) : a \in SeqToSet(SensorList(reg))}

Store ==
  /\ eeprom' = StoreOp(Registry, eeprom)
  /\ out' = [NoOut EXCEPT !.op = "store", !.phase = "stored",
                          !.snapshot = Triples(Registry)]
  /\ UNCHANGED <<hist, frame, heap, firstSensor, readingSensor, lastReadCycle,
                 firstPollSensor, lastSensor, inputChangeCallbackRegistered,
                 micros>>

Load ==
  \E r \in LoadOp(Registry, eeprom) :
    /\ SetRegistry(r.reg)
    /\ out' = [NoOut EXCEPT !.op = "load", !.ret = r.failed,
                            !.configured = r.configured,
                            !.phase = IF out.phase = "reset" THEN "loaded"
                                      ELSE "idle",
                            !.snapshot = IF out.phase = "reset"
                                         THEN out.snapshot ELSE {}]
    /\ UNCHANGED <<hist, frame, lastReadCycle, inputChangeCallbackRegistered, micros,
                   eeprom>>

\* Power cycle: the statics take their initial values, the heap is empty,
\* the EEPROM keeps its contents.
Reboot ==
  /\ SetRegistry(EmptyRegistry)
  /\ lastReadCycle' = 0
  /\ inputChangeCallbackRegistered' = FALSE
  /\ micros' = 0
  /\ out' = [NoOut EXCEPT !.op = "reset",
                          !.phase = IF out.phase = "stored" THEN "reset"
                                    ELSE "idle",
                          !.snapshot = IF out.phase = "stored"
                                       THEN out.snapshot ELSE {}]
  /\ UNCHANGED <<eeprom, hist, frame>>

\* ------------------------------------------------- the specifications
Init ==
  /\ heap = << >>
  /\ firstSensor = NULL
  /\ readingSensor = NULL
  /\ lastReadCycle = 0
  /\ firstPollSensor = NULL
  /\ lastSensor = NULL
  /\ inputChangeCallbackRegistered = FALSE
  /\ micros = 0
  /\ eeprom = [nSensors |-> 0, recs |-> <<>>]
  /\ out = NoOut
  /\ hist = NoHist
  /\ frame = NoFrame

Next ==
  \/ Create
  \/ Remove
  \/ CheckAll
  \/ InputChangeCallback
  \/ SetState
  \/ AdvanceClock

Spec == Init /\ [][Next]_vars

\* The registry commands and the EEPROM, the scan left out.
NextStore ==
  \/ CreateOf(SensorIds, StoreConfigs)
  \/ Remove
  \/ SetStateOf({1}, {1})
  \/ Store
  \/ Load
  \/ Reboot

SpecStore == Init /\ [][NextStore]_vars

\* Three sensors without pins, two of them driven by setState, so that the
\* scan stops inside the list.
CursorIds == {1, 2, 3}

NextCursor ==
  \/ CreateOf(CursorIds, {<<VPIN_NONE, 0>>})
  \/ RemoveOf(CursorIds)
  \/ SetStateOf({2, 3}, {1})
  \/ CheckAll
  \/ AdvanceClock

SpecCursor == Init /\ [][NextCursor]_vars

\* The registry create(1, VPIN_NONE, 0) ... create(n, VPIN_NONE, 0) build
\* from the empty one, calloc giving cell k to sensor k: each new sensor
\* is the head and points to the one created before it.
BuildList(n) ==
  [EmptyRegistry EXCEPT
     !.heap = [k \in 1..n |->
                 NewSensor([EmptyRegistry EXCEPT !.firstSensor = k - 1],
                           k, VPIN_NONE, 0)],
     !.firstSensor = n]

InitQuantum ==
  /\ \E n \in (Quantum - 1)..BigListLen :
       /\ heap = BuildList(n).heap
       /\ firstSensor = BuildList(n).firstSensor
  /\ readingSensor = NULL
  /\ lastReadCycle = 0
  /\ firstPollSensor = NULL
  /\ lastSensor = NULL
  /\ inputChangeCallbackRegistered = FALSE
  /\ micros = 0
  /\ eeprom = [nSensors |-> 0, recs |-> <<>>]
  /\ out = NoOut
  /\ hist = NoHist
  /\ frame = NoFrame

\* The sensors setState and remove act on in the long list: one in the
\* first entry of a cycle, one in the second.
ProbeIds == {2, BigListLen - 1}

NextQuantum ==
  \/ CheckAll
  \/ AdvanceClock
  \/ SetStateOf(ProbeIds, {1})
  \/ RemoveOf({BigListLen - 1})

SpecQuantum == InitQuantum /\ [][NextQuantum]_vars

\* ------------------------------------------------------------- claims
Live == DOMAIN heap

LastOf(seq) == seq[Len(seq)]

\* The step is an entry of checkAll, and a is a sensor it scanned.
ScannedIn(a) == out'.op = "checkAll" /\ a \in SeqToSet(out'.scanned)

\* C1 as stated: a sensor whose countdown began at minReadCount is
\* committed at the N-th consecutive scan that sees the new level, N being
\* minReadCount; so no sensor is ever left with N such scans counted and
\* the level still not committed.
C1_CommitAtNthScan ==
  \A a \in Live : heap[a].ticks < minReadCount

\* C1 amended: a sensor whose countdown began at minReadCount is committed
\* (active changes, and the change is broadcast) by a scan exactly when
\* that scan sees the new level and minReadCount consecutive scans before
\* it saw it too: at scan minReadCount + 1, the first minReadCount scans
\* only counting latchDelay down.
C1_CommitAtScanAfterN ==
  [][\A a \in Live :
       (ScannedIn(a) /\ heap[a].ticks >= 0) =>
         /\ (heap'[a].active # heap[a].active) <=>
              (heap'[a].inputState # heap[a].active
               /\ heap[a].ticks = minReadCount)
         /\ (heap'[a].active # heap[a].active) =>
              /\ out'.reported = <<(<<heap[a].snum, heap'[a].active>>)>>
              /\ heap'[a].active = heap'[a].inputState
         /\ (heap'[a].inputState # heap[a].active
             /\ heap[a].ticks < minReadCount) =>
              heap'[a].ticks = heap[a].ticks + 1
         /\ heap'[a].inputState = heap[a].active => heap'[a].ticks = 0
    ]_vars

\* A polled sensor has been scanned minReadCount times in a row with the
\* pin at the new level, and is still not committed.
C1_Witness ==
  \E a \in Live :
    /\ out.op = "checkAll" /\ a \in SeqToSet(out.scanned)
    /\ heap[a].ticks = minReadCount
    /\ heap[a].latchDelay = 0
    /\ IsPolled(heap[a])
    /\ heap[a].inputState # heap[a].active

\* A sensor whose change is validated: the next scan of it commits.
Ready(d) == d.inputState # d.active /\ d.latchDelay = 0

\* C2: an entry of checkAll calls broadcastSensor at most once, and a
\* sensor whose change it broadcast is the last one it scanned.
C2_AtMostOneReport ==
  out.op = "checkAll" =>
    /\ Len(out.reported) <= 1
    /\ out.reported # <<>> =>
         /\ out.scanned # <<>>
         /\ out.reported[1] = <<heap[LastOf(out.scanned)].snum,
                                heap[LastOf(out.scanned)].active>>
         /\ readingSensor = heap[LastOf(out.scanned)].nextSensor

\* An entry has broadcast one change and stopped in front of a sensor
\* whose change is validated too.
C2_Witness ==
  /\ out.op = "checkAll"
  /\ Len(out.reported) = 1
  /\ readingSensor # NULL
  /\ Ready(heap[readingSensor])

PosIn(lst, a) == CHOOSE i \in 1..Len(lst) : lst[i] = a

\* C4: an entry of checkAll applies the debounce step to at most Quantum
\* (16) sensors; they are consecutive sensors of the list, from the cursor
\* (from the head when a cycle starts), and the cursor ends just behind
\* them: it advances by at most 16 positions.
C4_QuantumBound ==
  [][out'.op = "checkAll" =>
       LET lst  == SensorList(Registry)
           n    == Len(out'.scanned)
           from == IF readingSensor # NULL THEN PosIn(lst, readingSensor)
                   ELSE 1
       IN  /\ n <= Quantum
           /\ out'.scanned = SubSeq(lst, from, from + n - 1)
           /\ readingSensor' = IF n = 0 THEN readingSensor
                               ELSE IF from + n <= Len(lst) THEN lst[from + n]
                               ELSE NULL
    ]_vars

\* An entry has scanned 16 sensors without a change to broadcast and has
\* stopped with sensors of the list left to scan.
C4_Witness ==
  /\ out.op = "checkAll"
  /\ Len(out.scanned) = Quantum
  /\ out.reported = <<>>
  /\ readingSensor # NULL
  /\ Len(SensorList(Registry)) > Quantum

\* The cursor is NULL or a sensor of the list.
CursorInList(reg) ==
  reg.readingSensor = NULL \/ reg.readingSensor \in SeqToSet(SensorList(reg))

\* C5: after every step the cursor is NULL or a sensor of the list, and the
\* list holds exactly the allocated sensors; a remove (also the one create
\* makes) that frees the sensor under the cursor leaves the cursor on that
\* sensor's successor, NULL if it was the last; and an entry of checkAll
\* scans only sensors that are allocated.
C5_CursorLive ==
  [][/\ CursorInList(Registry')
     /\ SeqToSet(SensorList(Registry')) = DOMAIN heap'
     /\ (out'.op \in {"remove", "create"} /\ out'.freed # NULL) =>
          readingSensor' = IF readingSensor = out'.freed
                           THEN heap[readingSensor].nextSensor
                           ELSE readingSensor
     /\ out'.op = "checkAll" => SeqToSet(out'.scanned) \subseteq Live
    ]_vars

\* remove has freed the sensor under the cursor, which had a successor:
\* the cursor is on it.
C5_Witness ==
  /\ out.op = "remove"
  /\ out.freed # NULL
  /\ out.freed = out.cursor
  /\ readingSensor # NULL
  /\ readingSensor \in Live

\* The sensors of the list with id n.
WithId(n) == {a \in SeqToSet(SensorList(Registry)) : heap[a].snum = n}

\* C6: no two sensors of the list have the same id; and after a create
\* that returned a sensor, that sensor is the head of the list, the only
\* one with its id, holds the pin and pullUp given and starts inactive
\* with latchDelay = minReadCount.
C6_IdUnique ==
  /\ \A a, b \in SeqToSet(SensorList(Registry)) :
       a # b => heap[a].snum # heap[b].snum
  /\ (out.op = "create" /\ out.ret # NULL) =>
       /\ firstSensor = out.ret
       /\ WithId(out.args[1]) = {out.ret}
       /\ Data(heap[out.ret]) = [snum |-> out.args[1], pin |-> out.args[2],
                                 pullUp |-> out.args[3]]
       /\ heap[out.ret].active = FALSE
       /\ heap[out.ret].inputState = FALSE
       /\ heap[out.ret].latchDelay = minReadCount

\* create has replaced a sensor while another one was in the list.
C6_Witness ==
  /\ out.op = "create"
  /\ out.ret # NULL
  /\ out.freed # NULL
  /\ Cardinality(Live) = 2

\* create was given a pin that passes the pin test.
ValidPinGiven(o) == o.args[2] <= VPIN_MAX \/ o.args[2] = VPIN_NONE

\* C7: a create that fails because calloc returns NULL leaves the sensors,
\* the list and the cursor as they were.
C7_AllocFailureKeepsRegistry ==
  [][(out'.op = "create" /\ out'.ret = NULL /\ ValidPinGiven(out')) =>
       UNCHANGED <<heap, firstSensor, readingSensor, firstPollSensor,
                   lastSensor>>
    ]_vars

\* C8: a create with a pin above VPIN_MAX that is not VPIN_NONE returns
\* NULL, frees nothing, calls configureInput for nothing and leaves the
\* sensors, the list and the cursor as they were.
C8_InvalidPinRejected ==
  [][(out'.op = "create" /\ ~ValidPinGiven(out')) =>
       /\ out'.ret = NULL
       /\ out'.configured = <<>>
       /\ out'.freed = NULL
       /\ UNCHANGED <<heap, firstSensor, readingSensor, lastReadCycle,
                      firstPollSensor, lastSensor, eeprom>>
    ]_vars

\* create has been called with an invalid pin for an id that is in the
\* list, with the cursor on a sensor.
C8_Witness ==
  /\ out.op = "create"
  /\ out.args[2] = PinBad
  /\ out.ret = NULL
  /\ WithId(out.args[1]) # {}
  /\ readingSensor # NULL

\* The sensor data in the records the header of the EEPROM counts.
Persisted == {eeprom.recs[i] : i \in 1..eeprom.nSensors}

\* Sensor a is as create leaves a sensor.
Fresh(a) ==
  /\ heap[a].active = FALSE
  /\ heap[a].inputState = FALSE
  /\ heap[a].latchDelay = minReadCount

\* After store(), the header counts the sensors of the list and the
\* records hold their data.
StoredIsRegistry ==
  out.op = "store" =>
    /\ eeprom.nSensors = Len(SensorList(Registry))
    /\ eeprom.nSensors = Cardinality(Triples(Registry))
    /\ Persisted = Triples(Registry)

SetStateLogged(ids, values) ==
  \E n \in ids, value \in values :
    LET tt == Get(Registry, n)
    IN  /\ tt # NULL
        /\ heap' = [heap EXCEPT ![tt] = SetStateOp(heap[tt], value)]
        /\ out' = [NoOut EXCEPT !.op = "setState", !.args = <<n, value>>,
                                !.ret = tt]
        /\ UNCHANGED <<hist, frame, firstSensor, readingSensor, lastReadCycle,
                       firstPollSensor, lastSensor,
                       inputChangeCallbackRegistered, micros, eeprom>>

\* A sensor without pin and a polled one, both driven by setState too.
NextInject ==
  \/ CreateOf({1}, {<<VPIN_NONE, 0>>})
  \/ CreateOf({2}, {<<PinPoll, 1>>})
  \/ RemoveOf({1})
  \/ SetStateLogged(SensorIds, {0, 1, 2})
  \/ CheckAll
  \/ AdvanceClock

SpecInject == Init /\ [][NextInject]_vars

\* C11: setState(value) sets inputState to value # 0 and latchDelay to 0
\* and leaves every other field, sensor and static as it is; and the first
\* scan after it of a sensor without pin whose inputState it left different
\* from active sets active to that value, broadcasts the change and resets
\* latchDelay, with no scan counting down before.
C11_SetStateCommitsNextScan ==
  [][/\ out'.op = "setState" =>
          LET tt == out'.ret
          IN  /\ tt \in Live
              /\ heap[tt].snum = out'.args[1]
              /\ heap' = [heap EXCEPT
                            ![tt].inputState = (out'.args[2] # 0),
                            ![tt].latchDelay = 0,
                            ![tt].ticks = -1]
              /\ UNCHANGED <<firstSensor, readingSensor, lastReadCycle,
                             firstPollSensor, lastSensor,
                             inputChangeCallbackRegistered, micros, eeprom>>
     /\ \A a \in Live :
          (ScannedIn(a) /\ heap[a].ticks = -1 /\ heap[a].pin = VPIN_NONE
           /\ heap[a].inputState # heap[a].active) =>
            /\ heap'[a].active = heap[a].inputState
            /\ heap'[a].inputState = heap[a].inputState
            /\ heap'[a].latchDelay = minReadCount
            /\ out'.reported = <<(<<heap[a].snum, heap[a].inputState>>)>>
    ]_vars

\* A scan has committed and broadcast the deactivation setState(0) asked
\* for of a sensor without pin.
C11_Witness ==
  /\ out.op = "checkAll"
  /\ \E a \in Live :
       /\ heap[a].pin = VPIN_NONE
       /\ out.reported = <<(<<heap[a].snum, FALSE>>)>>
       /\ a \in SeqToSet(out.scanned)

\* ------------------------------------------------- the cycle in the log
\* checkAll with the sensors it scans added to the history of the read
\* cycle, which begins anew when the entry finds the cursor NULL.
CheckAllLogged ==
  \E rd \in [PolledAddrs(heap) -> BOOLEAN] :
    \E r \in {CheckAllOp(Registry, lastReadCycle, micros, rd)} :
      /\ inputChangeCallbackRegistered' = TRUE
      /\ heap' = r.heap
      /\ readingSensor' = r.readingSensor
      /\ lastReadCycle' = r.lastReadCycle
      /\ out' = [NoOut EXCEPT !.op = "checkAll", !.scanned = r.scanned,
                              !.reported = r.reported,
                              !.settled = Settled(heap, r.heap, r.scanned)]
      /\ hist' = [hist EXCEPT
                    !.cycle = IF readingSensor = NULL THEN r.scanned
                              ELSE @ \o r.scanned]
      /\ UNCHANGED <<firstSensor, firstPollSensor, lastSensor, micros,
                     eeprom, frame>>

\* create and remove called while no read cycle is under way.
CreateBetweenCycles ==
  readingSensor = NULL /\ CreateOf({1}, {<<VPIN_NONE, 0>>})

RemoveBetweenCycles ==
  readingSensor = NULL /\ RemoveOf({1})

\* Three sensors without pin, created in the order 1, 2, 3.
InitCycle ==
  /\ heap = BuildList(3).heap
  /\ firstSensor = BuildList(3).firstSensor
  /\ readingSensor = NULL
  /\ lastReadCycle = 0
  /\ firstPollSensor = NULL
  /\ lastSensor = NULL
  /\ inputChangeCallbackRegistered = FALSE
  /\ micros = 0
  /\ eeprom = [nSensors |-> 0, recs |-> <<>>]
  /\ out = NoOut
  /\ hist = NoHist
  /\ frame = NoFrame

NextCycle ==
  \/ CreateBetweenCycles
  \/ RemoveBetweenCycles
  \/ SetStateOf({2, 3}, {1})
  \/ CheckAllLogged
  \/ AdvanceClock

\* The main loop calls checkAll over and over.
SpecCycle == InitCycle /\ [][NextCycle]_vars /\ WF_vars(CheckAllLogged)

\* C12, the order: with no create or remove during a read cycle, the
\* sensors scanned since the cycle started are at every entry of checkAll
\* the first sensors of the list, in list order, each once; the cursor is
\* on the sensor after them, and is NULL exactly when all sensors of the
\* list have been scanned; between two entries the cursor stays where it
\* is.
C12_CycleInListOrder ==
  [][/\ (out'.op = "checkAll" /\ out'.scanned # <<>>) =>
          LET lst == SensorList(Registry)
              n   == Len(hist'.cycle)
          IN  /\ n <= Len(lst)
              /\ hist'.cycle = SubSeq(lst, 1, n)
              /\ readingSensor' = IF n < Len(lst) THEN lst[n + 1] ELSE NULL
              /\ readingSensor' = NULL <=> hist'.cycle = lst
              /\ readingSensor = NULL => out'.scanned[1] = firstSensor
     /\ out'.op # "checkAll" => readingSensor' = readingSensor
    ]_vars

\* C12: the order of a read cycle, and under repeated calls of checkAll a
\* cursor that is on a sensor is eventually NULL again.
C12_FullCycle ==
  /\ C12_CycleInListOrder
  /\ (readingSensor # NULL) ~> (readingSensor = NULL)

\* A read cycle over three sensors has ended in an entry that scanned
\* fewer than three: the cycle took several entries.
C12_Witness ==
  /\ out.op = "checkAll"
  /\ readingSensor = NULL
  /\ Len(hist.cycle) = 3
  /\ hist.cycle = SensorList(Registry)
  /\ out.scanned # <<>>
  /\ Len(out.scanned) < 3

\* ------------------------------------------------- the main loop
\* The registry create(k, pins[k], 0) for k = 1 .. Len(pins) build from the
\* empty one, calloc giving cell k to sensor k.
BuildPins(pins) ==
  [EmptyRegistry EXCEPT
     !.heap = [k \in 1..Len(pins) |->
                 NewSensor([EmptyRegistry EXCEPT !.firstSensor = k - 1],
                           k, pins[k], 0)],
     !.firstSensor = Len(pins)]

\* The history after an entry of checkAll that scanned and reported as
\* said: the sensor it broadcast for is the last one it scanned.
SaidAfter(h, scanned, reported) ==
  IF reported = <<>> THEN h
  ELSE [h EXCEPT !.said =
          [a \in DOMAIN h.said \cup {scanned[Len(scanned)]} |->
             IF a = scanned[Len(scanned)] THEN reported[Len(reported)][2]
             ELSE h.said[a]]]

\* The longest a pass of the main loop takes: the clock does not go
\* round its whole range, less cycleInterval, between two calls of
\* checkAll.
MaxPass == MicrosModulus - cycleInterval

\* A pass of the main loop: time goes by, then checkAll is called.
LoopPass ==
  \E d \in 1..MaxPass, rd \in [PolledAddrs(heap) -> BOOLEAN] :
    \E r \in {CheckAllOp(Registry, lastReadCycle,
                          (micros + d) % MicrosModulus, rd)} :
      /\ micros' = (micros + d) % MicrosModulus
      /\ inputChangeCallbackRegistered' = TRUE
      /\ heap' = r.heap
      /\ readingSensor' = r.readingSensor
      /\ lastReadCycle' = r.lastReadCycle
      /\ out' = [NoOut EXCEPT !.op = "checkAll", !.scanned = r.scanned,
                              !.reported = r.reported,
                              !.settled = Settled(heap, r.heap, r.scanned)]
      /\ hist' = SaidAfter(hist, r.scanned, r.reported)
      /\ UNCHANGED <<firstSensor, firstPollSensor, lastSensor, eeprom,
                     frame>>

\* The input of a sensor changes level while the sensor is settled
\* (inputState = active), and then keeps the new level: setState for a
\* sensor without pin, the notification of the driver for one with a pin.
LevelChange ==
  \E a \in DOMAIN heap :
    /\ heap[a].inputState = heap[a].active
    /\ IF heap[a].pin = VPIN_NONE
       THEN heap' = [heap EXCEPT
                       ![a] = SetStateOp(heap[a],
                                         IF heap[a].active THEN 0 ELSE 1)]
       ELSE /\ inputChangeCallbackRegistered
            /\ heap' = InputChangeCallbackOp(Registry, heap[a].pin,
                                             IF heap[a].active THEN 0 ELSE 1)
    /\ out' = NoOut
    /\ UNCHANGED <<firstSensor, readingSensor, lastReadCycle,
                   firstPollSensor, lastSensor,
                   inputChangeCallbackRegistered, micros, eeprom, hist,
                   frame>>

\* Sensor 1 on a pin whose driver notifies, sensors 2 and 3 without pin.
InitLoop ==
  /\ heap = BuildPins(<<PinNotify, VPIN_NONE, VPIN_NONE>>).heap
  /\ firstSensor = 3
  /\ readingSensor = NULL
  /\ lastReadCycle = 0
  /\ firstPollSensor = NULL
  /\ lastSensor = NULL
  /\ inputChangeCallbackRegistered = FALSE
  /\ micros = 0
  /\ eeprom = [nSensors |-> 0, recs |-> <<>>]
  /\ out = NoOut
  /\ hist = NoHist
  /\ frame = NoFrame

NextLoop ==
  \/ LoopPass
  \/ LevelChange
  \/ RemoveOf({2})

\* The main loop never stops calling checkAll.
SpecLoop == InitLoop /\ [][NextLoop]_vars /\ WF_vars(LoopPass)

\* Sensor a is allocated and its input differs from active.
Unsettled(a) ==
  a \in DOMAIN heap /\ heap[a].inputState # heap[a].active

\* The change of sensor a has been committed and broadcast.
Told(a) ==
  /\ a \in DOMAIN heap
  /\ heap[a].active = heap[a].inputState
  /\ a \in DOMAIN hist.said
  /\ hist.said[a] = heap[a].active

\* C13: while the main loop goes on and the input of a sensor keeps a
\* level different from active, that level is eventually committed and
\* broadcast, unless the sensor is removed, whatever the other sensors do.
C13_EventuallyReported ==
  \A a \in 1..3 : Unsettled(a) ~> (a \notin DOMAIN heap \/ Told(a))

\* The three sensors have changed at the same time, each change has been
\* broadcast, the one of the last sensor of the list in this entry.
C13_Witness ==
  /\ out.op = "checkAll"
  /\ out.reported = <<(<<1, TRUE>>)>>
  /\ \A a \in 1..3 : Told(a) /\ heap[a].active

\* No broadcastSensor call of the step is for sensor a.
NotReported(a) ==
  \A i \in 1..Len(out'.reported) : out'.reported[i][1] # heap[a].snum

\* C14: a scan of a sensor that sees inputState = active resets latchDelay
\* to minReadCount and broadcasts nothing for it, however far the
\* countdown had gone; and the first scan after it that sees a different
\* level counts down from minReadCount again, committing nothing.
C14_FlickerRejected ==
  [][\A a \in Live :
       /\ (ScannedIn(a) /\ heap'[a].inputState = heap[a].active) =>
            /\ heap'[a].latchDelay = minReadCount
            /\ heap'[a].ticks = 0
            /\ heap'[a].active = heap[a].active
            /\ NotReported(a)
       /\ (ScannedIn(a) /\ heap[a].ticks = 0
           /\ heap'[a].inputState # heap[a].active) =>
            /\ heap[a].latchDelay = minReadCount
            /\ heap'[a].latchDelay = minReadCount - 1
            /\ heap'[a].active = heap[a].active
            /\ NotReported(a)
    ]_vars

\* An entry of checkAll has found the input of a sensor back at the level
\* of active after scans that had counted down, and broadcast nothing.
C14_Witness ==
  /\ out.op = "checkAll"
  /\ out.reported = <<>>
  /\ \E a \in out.settled : /\ heap[a].latchDelay = minReadCount
                             /\ heap[a].inputState = heap[a].active

\* C15: the latchDelay of every sensor is at least 0 and at most
\* minReadCount.
C15_LatchDelayInRange ==
  \A a \in Live : heap[a].latchDelay \in 0..minReadCount

\* Both ways down to 0 have been taken: one sensor was counted down to 0
\* by scans, another was cleared by setState.
C15_Witness ==
  \E a, b \in Live :
    /\ heap[a].latchDelay = 0
    /\ heap[a].ticks = minReadCount
    /\ heap[b].latchDelay = 0
    /\ heap[b].ticks = -1

\* ------------------------------------------------ the callback in the log
\* inputChangeCallback(vpin, state) with the call in the log: args the pin
\* and the state, ret the sensor found.
InputChangeLogged(vpins, states) ==
  /\ inputChangeCallbackRegistered
  /\ \E vpin \in vpins, state \in states :
       /\ heap' = InputChangeCallbackOp(Registry, vpin, state)
       /\ out' = [NoOut EXCEPT !.op = "notify", !.args = <<vpin, state>>,
                               !.ret = FindPin(heap, SensorList(Registry),
                                               vpin)]
  /\ UNCHANGED <<firstSensor, readingSensor, lastReadCycle, firstPollSensor,
                 lastSensor, inputChangeCallbackRegistered, micros, eeprom,
                 hist, frame>>

\* Two sensors that can be on the same notifying pin, and notifications
\* also for a pin that may have no sensor.
NextNotify ==
  \/ CreateOf({1}, {<<PinNotify, 0>>, <<PinPoll, 1>>})
  \/ CreateOf({2}, {<<PinNotify, 0>>})
  \/ RemoveOf({1})
  \/ InputChangeLogged({PinNotify, PinPoll}, {0, 1, 2})
  \/ CheckAll
  \/ AdvanceClock

SpecNotify == Init /\ [][NextNotify]_vars

\* C16: inputChangeCallback(vpin, state) writes state # 0 to inputState of
\* the first sensor of the list whose pin is vpin and nothing else: active,
\* latchDelay, the list, the cursor and lastReadCycle stay as they are and
\* it broadcasts nothing; with no sensor on vpin nothing changes; and
\* only checkAll broadcasts.
C16_CallbackOnlyInputState ==
  [][/\ out'.op = "notify" =>
          LET lst  == SensorList(Registry)
              vpin == out'.args[1]
              hits == {i \in 1..Len(lst) : heap[lst[i]].pin = vpin}
          IN  /\ hits = {} => (out'.ret = NULL /\ heap' = heap)
              /\ hits # {} =>
                   \E i \in hits :
                     /\ \A j \in hits : i <= j
                     /\ out'.ret = lst[i]
                     /\ heap' = [heap EXCEPT
                                   ![lst[i]].inputState = (out'.args[2] # 0)]
              /\ out'.reported = <<>>
              /\ UNCHANGED <<firstSensor, readingSensor, lastReadCycle,
                             firstPollSensor, lastSensor, micros, eeprom>>
     /\ out'.reported # <<>> => out'.op = "checkAll"
    ]_vars

\* The callback has set the input of the first of two sensors on the pin:
\* that sensor is still inactive with the full count, the second one has
\* its input as it was.
C16_Witness ==
  /\ out.op = "notify"
  /\ out.ret = firstSensor
  /\ firstSensor # NULL
  /\ heap[firstSensor].inputState
  /\ ~heap[firstSensor].active
  /\ heap[firstSensor].latchDelay = minReadCount
  /\ heap[firstSensor].nextSensor # NULL
  /\ heap[heap[firstSensor].nextSensor].pin = out.args[1]
  /\ ~heap[heap[firstSensor].nextSensor].inputState

\* In the list lst no sensor that needs polling is before one that does
\* not.
NotifyFirst(lst) ==
  \A i, j \in 1..Len(lst) :
    i < j => ~(heap[lst[i]].pollingRequired /\ ~heap[lst[j]].pollingRequired)

\* The first sensor of lst that needs polling (NULL = none).
FirstPolled(lst) ==
  LET hits == {i \in 1..Len(lst) : heap[lst[i]].pollingRequired}
  IN  IF hits = {} THEN NULL
      ELSE lst[CHOOSE i \in hits : \A j \in hits : i <= j]

\* C17: in the list the sensors that do not need polling come before
\* those that do, firstPollSensor is the first sensor that needs polling
\* and lastSensor is the last sensor of the list.
C17_ListPartitioned ==
  LET lst == SensorList(Registry)
  IN  /\ NotifyFirst(lst)
      /\ firstPollSensor = FirstPolled(lst)
      /\ lastSensor = IF lst = <<>> THEN NULL ELSE lst[Len(lst)]

\* --------------------------------------- checkAll, statement by statement
\* checkAll in steps, so that inputChangeCallback, which the driver may
\* call from an interrupt, can run between two statements that read
\* inputState.  frame holds the locals sensorCount and pause, seen (the
\* inputState the comparison loaded), the log of the entry (scanned,
\* reported) and before (the active of every sensor when the entry began).

\* Lines 288-312: registration, the start of a read cycle, the loop test.
Enter ==
  /\ frame.pc = "idle"
  /\ inputChangeCallbackRegistered' = TRUE
  /\ LET start == /\ firstSensor # NULL
                  /\ readingSensor = NULL
                  /\ CycleDue(micros, lastReadCycle)
         rs    == IF start THEN firstSensor ELSE readingSensor
     IN  /\ readingSensor' = rs
         /\ lastReadCycle' = IF start THEN micros ELSE lastReadCycle
         /\ IF firstSensor # NULL /\ rs # NULL
            THEN /\ frame' = [pc |-> "examine", sensorCount |-> 0,
                              pause |-> FALSE, seen |-> FALSE,
                              scanned |-> <<>>, reported |-> <<>>,
                              before |-> [a \in DOMAIN heap |->
                                            heap[a].active]]
                 /\ out' = NoOut
            ELSE /\ frame' = NoFrame
                 /\ out' = [NoOut EXCEPT !.op = "checkAll"]
  /\ UNCHANGED <<heap, firstSensor, firstPollSensor, lastSensor, micros,
                 eeprom, hist>>

\* Lines 320-330: the read of a polled pin, the comparison of inputState
\* with active and the first two branches; the third branch is entered
\* with the inputState the comparison loaded in seen.
Examine ==
  /\ frame.pc = "examine"
  /\ \E rd \in BOOLEAN :
       LET d0 == heap[readingSensor]
           d1 == IF IsPolled(d0) THEN [d0 EXCEPT !.inputState = rd] ELSE d0
           db == DebounceStep(d1)
       IN  /\ IsPolled(d0) \/ rd
           /\ IF db.commit
              THEN /\ heap' = [heap EXCEPT ![readingSensor] = d1]
                   /\ frame' = [frame EXCEPT !.pc = "commit",
                                             !.seen = d1.inputState]
              ELSE /\ heap' = [heap EXCEPT ![readingSensor] = db.d]
                   /\ frame' = [frame EXCEPT !.pc = "advance"]
  /\ out' = NoOut
  /\ UNCHANGED <<firstSensor, readingSensor, lastReadCycle, firstPollSensor,
                 lastSensor, inputChangeCallbackRegistered, micros, eeprom,
                 hist>>

\* Lines 332-337: active = inputState, where inputState is not volatile:
\* the build may read it again or use the value the comparison loaded.
Commit ==
  /\ frame.pc = "commit"
  /\ \E v \in {heap[readingSensor].inputState, frame.seen} :
       /\ heap' = [heap EXCEPT ![readingSensor].active = v,
                               ![readingSensor].latchDelay = minReadCount,
                               ![readingSensor].ticks = 0]
       /\ frame' = [frame EXCEPT
                      !.pc = "advance",
                      !.pause = TRUE,
                      !.reported = Append(@, [sensor |-> readingSensor,
                                              snum |-> heap[readingSensor].snum,
                                              value |-> v])]
  /\ out' = NoOut
  /\ UNCHANGED <<firstSensor, readingSensor, lastReadCycle, firstPollSensor,
                 lastSensor, inputChangeCallbackRegistered, micros, eeprom,
                 hist>>

\* Lines 341-349 and the loop test: the cursor moves on, the sensor is
\* counted, and checkAll goes round the loop or returns.
Advance ==
  /\ frame.pc = "advance"
  /\ LET nx    == heap[readingSensor].nextSensor
         count == frame.sensorCount + 1
         pause == PauseAfter(frame.pause, count)
         seen  == Append(frame.scanned, readingSensor)
     IN  /\ readingSensor' = nx
         /\ IF nx # NULL /\ ~pause
            THEN /\ frame' = [frame EXCEPT !.pc = "examine",
                                           !.sensorCount = count,
                                           !.scanned = seen]
                 /\ out' = NoOut
            ELSE /\ frame' = NoFrame
                 /\ out' = [NoOut EXCEPT
                              !.op = "checkAll", !.scanned = seen,
                              !.reported =
                                [i \in 1..Len(frame.reported) |->
                                   <<frame.reported[i].snum,
                                     frame.reported[i].value>>]]
  /\ UNCHANGED <<heap, firstSensor, lastReadCycle, firstPollSensor,
                 lastSensor, inputChangeCallbackRegistered, micros, eeprom,
                 hist>>

\* A command of the main loop: it runs when checkAll is not running.
CreateFromLoop ==
  /\ frame.pc = "idle"
  /\ \/ CreateOf({1}, {<<PinNotify, 0>>})
     \/ CreateOf({2}, {<<PinPoll, 1>>})

\* checkAll in steps, the callback at any time.
NextRace ==
  \/ CreateFromLoop
  \/ Enter
  \/ Examine
  \/ Commit
  \/ Advance
  \/ InputChangeCallback
  \/ AdvanceClock

SpecRace == Init /\ [][NextRace]_vars

\* C18: the value of every broadcastSensor call of an entry of checkAll
\* differs from the active the sensor had when the entry began, also when
\* inputChangeCallback runs between two statements of checkAll.
C18_ReportsAreChanges ==
  frame.pc # "idle" =>
    \A i \in 1..Len(frame.reported) :
      frame.reported[i].value # frame.before[frame.reported[i].sensor]

\* ------------------------------------------ the broadcasts of a sensor
\* The history with nothing said for the cells in gone: the sensors that
\* were in them are freed, or the cell holds a new sensor.
Forget(h, gone) ==
  [h EXCEPT !.said = [a \in (DOMAIN h.said) \ gone |-> h.said[a]]]

\* create and remove with the history kept by sensor: what was said for a
\* sensor ends with it.
CreateTracked(ids, cfgs) ==
  \E snum \in ids, cfg \in cfgs :
    \E tt \in Calloc(RemoveExisting(Registry, snum).reg.heap) :
      LET r == CreateOp(Registry, snum, cfg[1], cfg[2], tt)
      IN  /\ SetRegistry(r.reg)
          /\ out' = [NoOut EXCEPT !.op = "create", !.ret = r.ret,
                                  !.args = <<snum, cfg[1], cfg[2]>>,
                                  !.configured = r.configured,
                                  !.freed = r.freed,
                                  !.cursor = IF r.freed = NULL THEN NULL
                                             ELSE readingSensor]
          /\ hist' = Forget(hist, {r.freed, r.ret})
          /\ UNCHANGED <<lastReadCycle, inputChangeCallbackRegistered,
                         micros, eeprom, frame>>

RemoveTracked(ids) ==
  \E n \in ids :
    LET r == RemoveOp(Registry, n)
    IN  /\ SetRegistry(r.reg)
        /\ out' = [NoOut EXCEPT !.op = "remove", !.ret = r.ret,
                                !.args = <<n>>, !.freed = r.freed,
                                !.cursor = IF r.freed = NULL THEN NULL
                                           ELSE readingSensor]
        /\ hist' = Forget(hist, {r.freed})
        /\ UNCHANGED <<lastReadCycle, inputChangeCallbackRegistered,
                       micros, eeprom, frame>>

\* All operations from the main loop, the broadcasts kept by sensor.
NextSaid ==
  \/ CreateTracked({1}, {<<PinPoll, 1>>, <<VPIN_NONE, 0>>})
  \/ CreateTracked({2}, {<<PinNotify, 0>>})
  \/ RemoveTracked(SensorIds)
  \/ SetStateOf(SensorIds, {0, 1})
  \/ InputChangeCallback
  \/ LoopPass

SpecSaid == Init /\ [][NextSaid]_vars

\* C19: between its create and its remove, the first value broadcast for
\* a sensor is TRUE, every later one differs from the one before, and the
\* last one broadcast is the sensor's active (which is FALSE while none
\* was).
C19_ReportsAlternate ==
  [][/\ \A a \in DOMAIN heap' :
          IF a \in DOMAIN hist'.said
          THEN hist'.said[a] = heap'[a].active
          ELSE heap'[a].active = FALSE
     /\ (out'.op = "checkAll" /\ out'.reported # <<>>) =>
          LET a == LastOf(out'.scanned)
              v == out'.reported[1][2]
          IN  /\ Len(out'.reported) = 1
              /\ out'.reported[1][1] = heap[a].snum
              /\ IF a \in DOMAIN hist.said THEN v # hist.said[a]
                 ELSE v = TRUE
    ]_vars

\* A sensor has been broadcast as active and now as inactive again.
C19_Witness ==
  /\ out.op = "checkAll"
  /\ out.reported # <<>>
  /\ \E a \in Live :
       /\ out.reported = <<(<<heap[a].snum, FALSE>>)>>
       /\ a \in DOMAIN hist.said
       /\ hist.said[a] = FALSE
       /\ ~heap[a].active

\* ------------------------------------------------- the clock going round
\* Time gone by, as far as the range of the clock can tell it.
Sat(e) == IF e >= MicrosModulus THEN MicrosModulus ELSE e

\* A pass of the main loop with the time since the start of the read
\* cycle in the history, and the operands of the comparison of line 302
\* (thisTime, lastReadCycle) in the log.  An entry that finds the cursor
\* NULL and scans a sensor has started a read cycle.
LoopPassTimed ==
  \E d \in 1..MaxPass, rd \in [PolledAddrs(heap) -> BOOLEAN] :
    \E r \in {CheckAllOp(Registry, lastReadCycle,
                          (micros + d) % MicrosModulus, rd)} :
      /\ micros' = (micros + d) % MicrosModulus
      /\ inputChangeCallbackRegistered' = TRUE
      /\ heap' = r.heap
      /\ readingSensor' = r.readingSensor
      /\ lastReadCycle' = r.lastReadCycle
      /\ out' = [NoOut EXCEPT !.op = "checkAll", !.scanned = r.scanned,
                              !.reported = r.reported,
                              !.args = <<(micros + d) % MicrosModulus,
                                         lastReadCycle>>]
      /\ hist' = [hist EXCEPT
                    !.elapsed = IF readingSensor = NULL /\ r.scanned # <<>>
                                THEN 0 ELSE Sat(@ + d)]
      /\ UNCHANGED <<firstSensor, firstPollSensor, lastSensor, eeprom,
                     frame>>

\* Two sensors without pin, driven by setState.
InitWrap ==
  /\ heap = BuildList(2).heap
  /\ firstSensor = 2
  /\ readingSensor = NULL
  /\ lastReadCycle = 0
  /\ firstPollSensor = NULL
  /\ lastSensor = NULL
  /\ inputChangeCallbackRegistered = FALSE
  /\ micros = 0
  /\ eeprom = [nSensors |-> 0, recs |-> <<>>]
  /\ out = NoOut
  /\ hist = NoHist
  /\ frame = NoFrame

NextWrap ==
  \/ LoopPassTimed
  \/ SetStateOf(SensorIds, {0, 1})

\* The main loop never stops calling checkAll.
SpecWrap == InitWrap /\ [][NextWrap]_vars /\ WF_vars(LoopPassTimed)

\* C20, the gate: when checkAll finds the cursor NULL and less time than
\* the range of the clock has gone by since the last read cycle started,
\* micros() - lastReadCycle in unsigned arithmetic is that time, also when
\* the clock has gone past its largest value in between, and a read cycle
\* starts exactly when that time is cycleInterval or more.
C20_GateFollowsElapsed ==
  [][(out'.op = "checkAll" /\ readingSensor = NULL /\ firstSensor # NULL
      /\ Sat(hist.elapsed + USub(micros', micros)) < MicrosModulus) =>
       LET e == hist.elapsed + USub(micros', micros)
       IN  /\ USub(micros', lastReadCycle) = e
           /\ out'.scanned # <<>> <=> e >= cycleInterval
           /\ out'.scanned # <<>> =>
                (lastReadCycle' = micros' /\ hist'.elapsed = 0)
           /\ out'.scanned = <<>> =>
                (lastReadCycle' = lastReadCycle /\ readingSensor' = NULL)
    ]_vars

\* C20: the gate follows the time gone by, and read cycles start again
\* and again however the clock goes round.
C20_WrapSafe ==
  /\ C20_GateFollowsElapsed
  /\ []<>(out.op = "checkAll" /\ hist.elapsed = 0)

\* A read cycle has started in an entry that read a time smaller than
\* lastReadCycle: the clock had gone round since the cycle before.
C20_Witness ==
  /\ out.op = "checkAll"
  /\ out.args # <<>>
  /\ out.args[1] < out.args[2]
  /\ out.scanned # <<>>
  /\ hist.elapsed = 0
  /\ lastReadCycle = out.args[1]

====
